---- MODULE Spec2Model ----
(***************************************************************************)
(* A model of mcp-server-explorer-notebook.ipynb: the kernel namespace     *)
(* the code cells share (config, client, fast, run, run_list, run_tool),   *)
(* the statements of every code cell, the scoped blocks they open on a     *)
(* fastmcp Client or a FastAgent session, and the helpers NotebookAgent    *)
(* and tool_to_dict.  The kernel executes one cell at a time; a cell is a  *)
(* sequence of statements, each one step of the model.                     *)
(***************************************************************************)
EXTENDS Integers, Sequences, FiniteSets, TLC

\* ------------------------------------------------------------------ bounds
\* Executions of driver cells (agent and client cells) in one kernel session.
MaxRuns == 3
\* Length of the tool catalog a server reports to list_tools.
MaxTools == 1
\* Number of keys of inputSchema.properties of a tool descriptor.
MaxProps == 2

\* ------------------------------------------------------------- value domains
None == "None"
Unset == "unset"

EnvVars == {"BRAVE_API_KEY", "OPENAI_API_KEY"}
EnvValues == {"k1", "k2"}
\* A mapping of variable names to a value, or Unset where the name is absent.
EnvMaps == [EnvVars -> EnvValues \cup {Unset}]

AgentCells == {"claude", "openai", "websearch"}
ClientCells == {"pw_list", "pw_nav", "brave"}
DriverCells == AgentCells \cup ClientCells

VARIABLES
    environ,     \* os.environ restricted to EnvVars
    dotenv,      \* content of the .env file read by the last load_dotenv()
    npx,         \* whether the launch command "npx" can be spawned
    imported,    \* the import cell has run
    helpers,     \* the helper cell has run (NotebookAgent, tool_to_dict)
    g,           \* the kernel's global names the driver cells assign
    cell,        \* the cell the kernel is executing, or None
    pc,          \* the statement of the cell, or of the called coroutine
    frame,       \* the coroutine asyncio.run is running: defining cell, name
    exc,         \* an exception is propagating out of the scoped block
    self,        \* the NotebookAgent instance under construction
    conns,       \* open connections and agent sessions
    inflight,    \* requests sent to a server or backend and not yet answered
    mcp_tools,   \* local of run / run_list: the catalog list_tools returned
    df,          \* local of run / run_list: the formatted rows
    response,    \* local of run / run_tool: the content blocks returned
    log,         \* operations of the current (or last) cell execution
    status,      \* how the last cell execution ended
    runs         \* driver cell executions so far

vars == <<environ, dotenv, npx, imported, helpers, g, cell, pc, frame, exc,
          self, conns, inflight, mcp_tools, df, response, log, status, runs>>

\* ------------------------------------------------------------- load_dotenv
\* dotenv.load_dotenv(override): a key already in os.environ is skipped unless
\* override, a key the file gives no value is not set.
load_dotenv_with(env, file, override) ==
    [k \in EnvVars |->
        IF env[k] # Unset /\ ~override THEN env[k]
        ELSE IF file[k] # Unset THEN file[k] ELSE env[k]]

load_dotenv_override(env, file) == load_dotenv_with(env, file, TRUE)

\* The notebook calls load_dotenv() with no arguments: override is False.
load_dotenv(env, file) == load_dotenv_with(env, file, FALSE)

\* os.getenv(name): the value, or None when the name is not set.
getenv(name) == IF environ[name] = Unset THEN None ELSE environ[name]

\* ------------------------------------------------------------ tool_to_dict
PropKeys == {"url", "count", "query"}
TitleValues == {None, "Navigate"}
HintValues == {None, "True", "False"}
\* mcp.types.ToolAnnotations: every field is optional and None when not given.
\* `present` is FALSE for a tool whose annotations attribute is None.
Annotations == [present : {TRUE}, title : TitleValues,
                readOnlyHint : HintValues, destructiveHint : HintValues]
NoAnnotations == [present |-> FALSE, title |-> None, readOnlyHint |-> None,
                  destructiveHint |-> None]

IsInjective(s) == \A i, j \in 1..Len(s) : s[i] = s[j] => i = j

\* The key orders a dict of at most n keys of S can have.
KeyOrders(S, n) ==
    {s \in UNION {[1..m -> S] : m \in 0..n} : IsInjective(s)}

\* An inputSchema dict: whether it has a "properties" key, and the (key,
\* schema) items of that dict in insertion order.
InputSchemas ==
    {[hasProperties |-> FALSE, properties |-> << >>]} \cup
    {[hasProperties |-> TRUE,
      properties |-> [i \in 1..Len(ks) |-> <<ks[i], "schema">>]] :
        ks \in KeyOrders(PropKeys, MaxProps)}

ToolNames == {"browser_navigate", "brave_web_search"}
Tools == [name : ToolNames, description : {"text"},
          annotations : Annotations \cup {NoAnnotations},
          inputSchema : InputSchemas]

\* `tool.annotations` as a condition: a pydantic model is truthy, None is not.
Truthy(annotations) == annotations.present

\* dict.get("properties", {}): the items, or those of the empty dict.
GetProperties(schema) ==
    IF schema.hasProperties THEN schema.properties ELSE << >>

\* list(d.keys()): the keys in insertion order.
Keys(items) == [i \in 1..Len(items) |-> items[i][1]]

\* `x or None`: a falsy value (False) becomes None.
OrNone(x) == IF x = "False" THEN None ELSE x

tool_to_dict_falsy(tool) ==
    [name |-> tool.name,
     title |-> IF Truthy(tool.annotations) THEN tool.annotations.title ELSE None,
     description |-> tool.description,
     readOnly |-> OrNone(tool.annotations.readOnlyHint),
     destructive |-> OrNone(tool.annotations.destructiveHint),
     inputs |-> Keys(GetProperties(tool.inputSchema))]

Reversed(s) == [i \in 1..Len(s) |-> s[Len(s) + 1 - i]]

tool_to_dict_unordered(tool) ==
    [name |-> tool.name,
     title |-> IF Truthy(tool.annotations) THEN tool.annotations.title ELSE None,
     description |-> tool.description,
     readOnly |-> IF Truthy(tool.annotations)
                  THEN tool.annotations.readOnlyHint ELSE None,
     destructive |-> IF Truthy(tool.annotations)
                     THEN tool.annotations.destructiveHint ELSE None,
     inputs |-> Reversed(Keys(GetProperties(tool.inputSchema)))]

tool_to_dict(tool) ==
    [name |-> tool.name,
     title |-> IF Truthy(tool.annotations) THEN tool.annotations.title ELSE None,
     description |-> tool.description,
     readOnly |-> IF Truthy(tool.annotations)
                  THEN tool.annotations.readOnlyHint ELSE None,
     destructive |-> IF Truthy(tool.annotations)
                     THEN tool.annotations.destructiveHint ELSE None,
     inputs |-> Keys(GetProperties(tool.inputSchema))]

\* ------------------------------------------------- the kernel's namespace
NoConfig == [origin |-> None, server |-> None, command |-> None, key |-> None]
NoClient == [config |-> NoConfig]
NoArgs == [exists |-> FALSE, quiet |-> Unset]
NoAgent == [owner |-> None, name |-> None, args |-> NoArgs, agents |-> {}]
NoFrame == [def |-> None, fn |-> None]

\* The dict literal a client cell assigns to `config`.
ConfigOf(c) ==
    IF c = "brave"
    THEN [origin |-> c, server |-> "brave_websearch", command |-> "npx",
          key |-> getenv("BRAVE_API_KEY")]
    ELSE [origin |-> c, server |-> "playwright", command |-> "npx",
          key |-> None]

\* The arguments of the @fast.agent(...) decorator of an agent cell.
DeclOf(c) ==
    CASE c = "claude" ->
           [name |-> "default", model |-> None, servers |-> {}]
      [] c = "openai" ->
           [name |-> "default", model |-> "gpt-4o", servers |-> {}]
      [] OTHER ->
           [name |-> "assistant", model |-> "gpt-4o",
            servers |-> {"brave_websearch"}]

\* What the body of a coroutine does, by the cell that defined it and its name.
Kind(f) ==
    IF f.def \in AgentCells THEN "agent"
    ELSE IF f.def = "pw_list" \/ (f.def = "brave" /\ f.fn = "run_list")
         THEN "list"
         ELSE "tool"

\* The awaited operation of the scoped block.
OpOf(f) ==
    CASE Kind(f) = "agent" -> "prompt"
      [] Kind(f) = "list" -> "list_tools"
      [] OTHER -> "call_tool"

\* The tool a server of the notebook reports, as the README's servers do.
ServerTool(server) ==
    IF server = "playwright"
    THEN [name |-> "browser_navigate", description |-> "text",
          annotations |-> [present |-> TRUE, title |-> "Navigate",
                           readOnlyHint |-> "False",
                           destructiveHint |-> "True"],
          inputSchema |-> [hasProperties |-> TRUE,
                           properties |-> << <<"url", "schema">> >>]]
    ELSE [name |-> "brave_web_search", description |-> "text",
          annotations |-> NoAnnotations,
          inputSchema |-> [hasProperties |-> TRUE,
                           properties |-> << <<"query", "schema">>,
                                             <<"count", "schema">> >>]]

\* The catalogs list_tools can return from a server.
Catalogs(server) == {[i \in 1..n |-> ServerTool(server)] : n \in 0..MaxTools}

\* The content blocks call_tool can return.
Responses == {<< >>, <<"text">>}

Event(fn, op) == <<fn, op>>

\* ---------------------------------------------------------------- Init
Init ==
    /\ environ \in EnvMaps
    /\ dotenv = [k \in EnvVars |-> Unset]
    /\ npx \in BOOLEAN
    /\ imported = FALSE
    /\ helpers = FALSE
    /\ g = [config |-> NoConfig, client |-> NoClient, fast |-> NoAgent,
            run |-> None, run_list |-> None, run_tool |-> None]
    /\ cell = None
    /\ pc = None
    /\ frame = NoFrame
    /\ exc = FALSE
    /\ self = NoAgent
    /\ conns = {}
    /\ inflight = {}
    /\ mcp_tools = << >>
    /\ df = << >>
    /\ response = << >>
    /\ log = << >>
    /\ status = [cell |-> None, result |-> None]
    /\ runs = 0

\* ----------------------------------------------------- ends of a cell
\* The cell's last statement completed.
Finish ==
    /\ cell' = None
    /\ pc' = None
    /\ frame' = NoFrame
    /\ exc' = FALSE
    /\ status' = [cell |-> cell, result |-> "ok"]

\* An exception reached the cell: the kernel reports it and runs no further
\* statement of the cell.
Raise ==
    /\ cell' = None
    /\ pc' = None
    /\ frame' = NoFrame
    /\ exc' = FALSE
    /\ status' = [cell |-> cell, result |-> "raised"]

\* ------------------------------------------------------- setup cells
\* Cell 1: the imports and nest_asyncio.apply().
ImportCell ==
    /\ cell = None
    /\ imported' = TRUE
    /\ status' = [cell |-> "imports", result |-> "ok"]
    /\ log' = << >>
    /\ UNCHANGED <<environ, dotenv, npx, helpers, g, cell, pc, frame, exc,
                   self, conns, inflight, mcp_tools, df, response, runs>>

\* Cell 2: load_dotenv().  The name is bound by the import cell.
DotenvCell ==
    /\ cell = None
    /\ log' = << >>
    /\ IF imported
       THEN \E file \in EnvMaps :
               /\ environ' = load_dotenv(environ, file)
               /\ dotenv' = file
               /\ status' = [cell |-> "dotenv", result |-> "ok"]
       ELSE /\ status' = [cell |-> "dotenv", result |-> "raised"]
            /\ UNCHANGED <<environ, dotenv>>
    /\ UNCHANGED <<npx, imported, helpers, g, cell, pc, frame, exc, self,
                   conns, inflight, mcp_tools, df, response, runs>>

\* Cell 3: class NotebookAgent(FastAgent) and def tool_to_dict.
HelperCell ==
    /\ cell = None
    /\ log' = << >>
    /\ IF imported
       THEN /\ helpers' = TRUE
            /\ status' = [cell |-> "helpers", result |-> "ok"]
       ELSE /\ status' = [cell |-> "helpers", result |-> "raised"]
            /\ UNCHANGED helpers
    /\ UNCHANGED <<environ, dotenv, npx, imported, g, cell, pc, frame, exc,
                   self, conns, inflight, mcp_tools, df, response, runs>>

\* The kernel starts executing a driver cell at its first statement.
StartCell(c) ==
    /\ cell = None
    /\ runs < MaxRuns
    /\ cell' = c
    /\ pc' = IF c \in AgentCells THEN "new_agent" ELSE "config"
    /\ status' = [cell |-> c, result |-> "running"]
    /\ log' = << >>
    /\ runs' = runs + 1
    /\ UNCHANGED <<environ, dotenv, npx, imported, helpers, g, frame, exc,
                   self, conns, inflight, mcp_tools, df, response>>

\* ------------------------------------------------ NotebookAgent.__init__
\* `fast = NotebookAgent()`: the call.  The class is bound by the helper cell.
NewAgentBase ==
    /\ cell \in AgentCells
    /\ pc = "new_agent"
    /\ IF helpers
       THEN /\ \E q \in {"True", "False"} :
                 self' = [owner |-> cell, name |-> "NotebookAgent",
                          args |-> [exists |-> TRUE, quiet |-> q],
                          agents |-> {}]
            /\ pc' = "bind_fast"
            /\ UNCHANGED <<cell, frame, exc, status>>
       ELSE Raise /\ UNCHANGED self
    /\ UNCHANGED <<environ, dotenv, npx, imported, helpers, g, conns,
                   inflight, mcp_tools, df, response, log, runs>>

NewAgent ==
    /\ cell \in AgentCells
    /\ pc = "new_agent"
    /\ IF helpers
       THEN /\ self' = [owner |-> cell, name |-> None, args |-> NoArgs,
                        agents |-> {}]
            /\ pc' = "super_init"
            /\ UNCHANGED <<cell, frame, exc, status>>
       ELSE Raise /\ UNCHANGED self
    /\ UNCHANGED <<environ, dotenv, npx, imported, helpers, g, conns,
                   inflight, mcp_tools, df, response, log, runs>>

\* super().__init__("NotebookAgent"): the base constructor stores the name and
\* the arguments it parsed, whose quiet flag is whatever it parsed, or raises.
\* The log keeps the flag the base constructor stored.
SuperInit ==
    /\ cell \in AgentCells
    /\ pc = "super_init"
    /\ \/ /\ \E q \in {"True", "False"} :
               /\ self' = [self EXCEPT !.name = "NotebookAgent",
                                       !.args = [exists |-> TRUE, quiet |-> q]]
               /\ log' = Append(log, Event("FastAgent.__init__", q))
          /\ pc' = "set_args"
          /\ UNCHANGED <<cell, frame, exc, status>>
       \/ /\ Raise
          /\ self' = NoAgent
          /\ log' = Append(log, Event("FastAgent.__init__", "failed"))
    /\ UNCHANGED <<environ, dotenv, npx, imported, helpers, g, conns,
                   inflight, mcp_tools, df, response, runs>>

\* self.args = argparse.Namespace()
SetArgs ==
    /\ cell \in AgentCells
    /\ pc = "set_args"
    /\ self' = [self EXCEPT !.args = [exists |-> TRUE, quiet |-> Unset]]
    /\ pc' = "set_quiet"
    /\ UNCHANGED <<environ, dotenv, npx, imported, helpers, g, cell, frame,
                   exc, conns, inflight, mcp_tools, df, response, log, status,
                   runs>>

SetQuietFalse ==
    /\ cell \in AgentCells
    /\ pc = "set_quiet"
    /\ self' = [self EXCEPT !.args.quiet = "False"]
    /\ pc' = "bind_fast"
    /\ UNCHANGED <<environ, dotenv, npx, imported, helpers, g, cell, frame,
                   exc, conns, inflight, mcp_tools, df, response, log, status,
                   runs>>

\* self.args.quiet = True
SetQuiet ==
    /\ cell \in AgentCells
    /\ pc = "set_quiet"
    /\ self' = [self EXCEPT !.args.quiet = "True"]
    /\ pc' = "bind_fast"
    /\ UNCHANGED <<environ, dotenv, npx, imported, helpers, g, cell, frame,
                   exc, conns, inflight, mcp_tools, df, response, log, status,
                   runs>>

\* The constructor has returned: the assignment to the global `fast`.
BindFast ==
    /\ cell \in AgentCells
    /\ pc = "bind_fast"
    /\ g' = [g EXCEPT !.fast = self]
    /\ self' = NoAgent
    /\ pc' = "decorate"
    /\ UNCHANGED <<environ, dotenv, npx, imported, helpers, cell, frame, exc,
                   conns, inflight, mcp_tools, df, response, log, status,
                   runs>>

\* @fast.agent(...) async def run(): the declaration is registered on the
\* instance the global `fast` names, and `run` is bound.
Decorate ==
    /\ cell \in AgentCells
    /\ pc = "decorate"
    /\ g' = [g EXCEPT !.fast.agents = @ \cup {DeclOf(cell)}, !.run = cell]
    /\ log' = Append(log, Event("fast.agent", DeclOf(cell).name))
    /\ pc' = "call_run"
    /\ UNCHANGED <<environ, dotenv, npx, imported, helpers, cell, frame, exc,
                   self, conns, inflight, mcp_tools, df, response, status,
                   runs>>

\* ------------------------------------------------------- client cells
\* config = {...}.  The Brave cell reads os.getenv, bound by the import cell.
Config ==
    /\ cell \in ClientCells
    /\ pc = "config"
    /\ IF cell = "brave" /\ ~imported
       THEN Raise /\ UNCHANGED g
       ELSE /\ g' = [g EXCEPT !.config = ConfigOf(cell)]
            /\ pc' = "client"
            /\ UNCHANGED <<cell, frame, exc, status>>
    /\ UNCHANGED <<environ, dotenv, npx, imported, helpers, self, conns,
                   inflight, mcp_tools, df, response, log, runs>>

MakeClientStale ==
    /\ cell \in ClientCells
    /\ pc = "client"
    /\ IF ~imported
       THEN Raise /\ UNCHANGED g
       ELSE /\ g' = [g EXCEPT !.client = IF @ = NoClient
                                         THEN [config |-> g.config] ELSE @]
            /\ pc' = IF cell = "brave" THEN "def_list" ELSE "def_run"
            /\ UNCHANGED <<cell, frame, exc, status>>
    /\ UNCHANGED <<environ, dotenv, npx, imported, helpers, self, conns,
                   inflight, mcp_tools, df, response, log, runs>>

\* client = Client(config).  Client is bound by the import cell.
MakeClient ==
    /\ cell \in ClientCells
    /\ pc = "client"
    /\ IF ~imported
       THEN Raise /\ UNCHANGED g
       ELSE /\ g' = [g EXCEPT !.client = [config |-> g.config]]
            /\ pc' = IF cell = "brave" THEN "def_list" ELSE "def_run"
            /\ UNCHANGED <<cell, frame, exc, status>>
    /\ UNCHANGED <<environ, dotenv, npx, imported, helpers, self, conns,
                   inflight, mcp_tools, df, response, log, runs>>

\* async def run / run_list / run_tool: the name is bound to this cell's
\* function.
Def ==
    /\ cell \in ClientCells
    /\ pc \in {"def_run", "def_list", "def_tool"}
    /\ g' = CASE pc = "def_run" -> [g EXCEPT !.run = cell]
              [] pc = "def_list" -> [g EXCEPT !.run_list = cell]
              [] OTHER -> [g EXCEPT !.run_tool = cell]
    /\ pc' = CASE pc = "def_run" -> "call_run"
               [] pc = "def_list" -> "def_tool"
               [] OTHER -> "call_list"
    /\ UNCHANGED <<environ, dotenv, npx, imported, helpers, cell, frame, exc,
                   self, conns, inflight, mcp_tools, df, response, log,
                   status, runs>>

\* asyncio.run(run()), asyncio.run(run_list()), asyncio.run(run_tool()): the
\* function the global name is bound to is called and run to completion.
Call ==
    /\ cell \in DriverCells
    /\ pc \in {"call_run", "call_list", "call_tool"}
    /\ frame' = CASE pc = "call_run" -> [def |-> g.run, fn |-> "run"]
                  [] pc = "call_list" -> [def |-> g.run_list, fn |-> "run_list"]
                  [] OTHER -> [def |-> g.run_tool, fn |-> "run_tool"]
    /\ pc' = "aenter"
    /\ UNCHANGED <<environ, dotenv, npx, imported, helpers, g, cell, exc,
                   self, conns, inflight, mcp_tools, df, response, log,
                   status, runs>>

\* ------------------------------------------------- the scoped blocks
\* Whether the processes the block needs can be launched.
CanSpawn(f) ==
    IF Kind(f) = "agent"
    THEN (\E d \in g.fast.agents : d.servers # {}) => npx
    ELSE npx

\* What `async with client` or `async with fast.run()` opens: the connection
\* of the object the global name is bound to when the coroutine runs.
Opened(f, c) ==
    IF Kind(f) = "agent"
    THEN [kind |-> "session", origin |-> g.fast.owner, by |-> c, fn |-> f.fn,
          server |-> None, key |-> None, agents |-> g.fast.agents]
    ELSE [kind |-> "client", origin |-> g.client.config.origin, by |-> c,
          fn |-> f.fn, server |-> g.client.config.server,
          key |-> g.client.config.key, agents |-> {}]

\* __aenter__ succeeds: the connection is open and the body starts.
Aenter ==
    /\ cell \in DriverCells
    /\ pc = "aenter"
    /\ CanSpawn(frame)
    /\ conns' = conns \cup {Opened(frame, cell)}
    /\ log' = Append(log, Event(frame.fn, "open"))
    /\ pc' = "invoke"
    /\ UNCHANGED <<environ, dotenv, npx, imported, helpers, g, cell, frame,
                   exc, self, inflight, mcp_tools, df, response, status, runs>>

AenterFailShown ==
    /\ cell \in DriverCells
    /\ pc = "aenter"
    /\ log' = Append(log, Event(frame.fn, "open_failed"))
    /\ pc' = "display"
    /\ UNCHANGED <<environ, dotenv, npx, imported, helpers, g, cell, frame,
                   exc, self, conns, inflight, mcp_tools, df, response,
                   status, runs>>

\* __aenter__ raises (the command cannot be spawned, the handshake fails):
\* nothing is open, the body is skipped and the exception leaves asyncio.run.
AenterFail ==
    /\ cell \in DriverCells
    /\ pc = "aenter"
    /\ log' = Append(log, Event(frame.fn, "open_failed"))
    /\ Raise
    /\ UNCHANGED <<environ, dotenv, npx, imported, helpers, g, self, conns,
                   inflight, mcp_tools, df, response, runs>>

\* await client.list_tools() / client.call_tool(...) / agent(...): the request
\* is sent and the coroutine is suspended.
Invoke ==
    /\ cell \in DriverCells
    /\ pc = "invoke"
    /\ inflight' = inflight \cup {[by |-> cell, fn |-> frame.fn,
                                  op |-> OpOf(frame)]}
    /\ log' = Append(log, Event(frame.fn, OpOf(frame)))
    /\ pc' = "await"
    /\ UNCHANGED <<environ, dotenv, npx, imported, helpers, g, cell, frame,
                   exc, self, conns, mcp_tools, df, response, status, runs>>

\* The answer arrives and is bound to mcp_tools or response.
AwaitOk ==
    /\ cell \in DriverCells
    /\ pc = "await"
    /\ inflight' = {}
    /\ IF Kind(frame) = "list"
       THEN /\ \E conn \in conns : mcp_tools' \in Catalogs(conn.server)
            /\ UNCHANGED response
       ELSE /\ response' \in Responses
            /\ UNCHANGED mcp_tools
    /\ pc' = CASE Kind(frame) = "list" -> "format"
               [] frame.def = "pw_nav" -> "aexit"
               [] OTHER -> "display"
    /\ UNCHANGED <<environ, dotenv, npx, imported, helpers, g, cell, frame,
                   exc, self, conns, df, log, status, runs>>

\* The awaited operation raises inside the block.
AwaitFail ==
    /\ cell \in DriverCells
    /\ pc = "await"
    /\ inflight' = {}
    /\ exc' = TRUE
    /\ log' = Append(log, Event(frame.fn, "failed"))
    /\ pc' = "aexit"
    /\ UNCHANGED <<environ, dotenv, npx, imported, helpers, g, cell, frame,
                   self, conns, mcp_tools, df, response, status, runs>>

\* df = pd.DataFrame([tool_to_dict(t) for t in mcp_tools]).  tool_to_dict is
\* bound by the helper cell and looked up once per tool.
Format ==
    /\ cell \in DriverCells
    /\ pc = "format"
    /\ IF mcp_tools # << >> /\ ~helpers
       THEN /\ exc' = TRUE
            /\ pc' = "aexit"
            /\ log' = Append(log, Event(frame.fn, "failed"))
            /\ UNCHANGED df
       ELSE /\ df' = [i \in 1..Len(mcp_tools) |-> tool_to_dict(mcp_tools[i])]
            /\ log' = log \o [i \in 1..Len(mcp_tools) |->
                                Event(frame.fn, "tool_to_dict")]
            /\ pc' = "display"
            /\ UNCHANGED exc
    /\ UNCHANGED <<environ, dotenv, npx, imported, helpers, g, cell, frame,
                   self, conns, inflight, mcp_tools, response, status, runs>>

\* display(df), display(Markdown(response[0].text)), print(response).
\* response[0] raises on an empty list of content blocks.
Display ==
    /\ cell \in DriverCells
    /\ pc = "display"
    /\ \/ /\ Kind(frame) = "tool" => response # << >>
          /\ log' = Append(log, Event(frame.fn, "display"))
          /\ UNCHANGED exc
       \/ /\ exc' = TRUE
          /\ log' = Append(log, Event(frame.fn, "failed"))
    /\ pc' = "aexit"
    /\ UNCHANGED <<environ, dotenv, npx, imported, helpers, g, cell, frame,
                   self, conns, inflight, mcp_tools, df, response, status,
                   runs>>

ReleaseUnlessFailed(cs, c, fn, failed) ==
    IF failed THEN cs ELSE {x \in cs : ~(x.by = c /\ x.fn = fn)}

ReleaseNever(cs, c, fn, failed) == cs

\* __aexit__(exc_type, exc, tb): the connection the block opened is closed,
\* whether or not an exception is passing through.
Release(cs, c, fn, failed) == {x \in cs : ~(x.by = c /\ x.fn = fn)}

Suppressed(failed) == FALSE

\* __aexit__ returns a false value: an exception passing through the block
\* goes on to the caller.
Propagates(failed) == failed

\* The end of the block: __aexit__ runs, the locals die with the coroutine,
\* and asyncio.run returns to the cell or raises into it.
Aexit ==
    /\ cell \in DriverCells
    /\ pc = "aexit"
    /\ conns' = Release(conns, cell, frame.fn, exc)
    /\ log' = Append(log, Event(frame.fn, "close"))
    /\ mcp_tools' = << >>
    /\ df' = << >>
    /\ response' = << >>
    /\ IF Propagates(exc)
       THEN Raise
       ELSE IF cell = "brave" /\ frame.fn = "run_list"
            THEN /\ pc' = "call_tool"
                 /\ frame' = NoFrame
                 /\ exc' = FALSE
                 /\ UNCHANGED <<cell, status>>
            ELSE Finish
    /\ UNCHANGED <<environ, dotenv, npx, imported, helpers, g, self,
                   inflight, runs>>

\* ---------------------------------------------------------------- Next
Next ==
    \/ ImportCell
    \/ DotenvCell
    \/ HelperCell
    \/ \E c \in DriverCells : StartCell(c)
    \/ NewAgent
    \/ SuperInit
    \/ SetArgs
    \/ SetQuiet
    \/ BindFast
    \/ Decorate
    \/ Config
    \/ MakeClient
    \/ Def
    \/ Call
    \/ Aenter
    \/ AenterFail
    \/ Invoke
    \/ AwaitOk
    \/ AwaitFail
    \/ Format
    \/ Display
    \/ Aexit

Spec == Init /\ [][Next]_vars

\* The formatter alone: the list cell at its list comprehension, with any
\* one-tool catalog a server could have reported.
InitFmt ==
    /\ environ = [k \in EnvVars |-> Unset]
    /\ dotenv = [k \in EnvVars |-> Unset]
    /\ npx = TRUE
    /\ imported = TRUE
    /\ helpers = TRUE
    /\ g = [config |-> ConfigOf("pw_list"),
            client |-> [config |-> ConfigOf("pw_list")],
            fast |-> NoAgent, run |-> "pw_list", run_list |-> None,
            run_tool |-> None]
    /\ cell = "pw_list"
    /\ pc = "format"
    /\ frame = [def |-> "pw_list", fn |-> "run"]
    /\ exc = FALSE
    /\ self = NoAgent
    /\ conns = {[kind |-> "client", origin |-> "pw_list", by |-> "pw_list",
                 fn |-> "run", server |-> "playwright", key |-> None,
                 agents |-> {}]}
    /\ inflight = {}
    /\ mcp_tools \in [1..1 -> Tools]
    /\ df = << >>
    /\ response = << >>
    /\ log = <<Event("run", "open"), Event("run", "list_tools")>>
    /\ status = [cell |-> "pw_list", result |-> "running"]
    /\ runs = 1

NextFmt == Format \/ Display \/ Aexit

SpecFmt == InitFmt /\ [][NextFmt]_vars

\* ---------------------------------------------------------------- log
Indices == 1..Len(log)
Logged(fn, op) == \E i \in Indices : log[i] = Event(fn, op)
Count(fn, op) == Cardinality({i \in Indices : log[i] = Event(fn, op)})
Fns == {"run", "run_list", "run_tool"}
BlockPcs == {"invoke", "await", "format", "display", "aexit"}
IsFailure(e) == e[2] \in {"failed", "open_failed"}

\* ---------------------------------------------------------------- claims

\* C1: every scoped block releases the connection it opened when it exits,
\* on normal completion and on any exception: a connection is open only while
\* the cell that opened it is inside the block that opened it, so none is open
\* once run() has returned or raised.
C1_ScopedRelease ==
    \A x \in conns :
        /\ cell = x.by
        /\ frame.fn = x.fn
        /\ pc \in BlockPcs

\* A cell ended with an exception raised inside its block, after the
\* connection was opened, and nothing is left open.
C1_Witness ==
    /\ status.result = "raised"
    /\ \E fn \in Fns : Logged(fn, "open") /\ Logged(fn, "failed")
                       /\ Logged(fn, "close")
    /\ conns = {}

\* The position of an operation in the text of a cell.
Rank(e) ==
    CASE e[1] = "FastAgent.__init__" -> 1
      [] e[1] = "fast.agent" -> 2
      [] OTHER ->
           (IF e[1] = "run_tool" THEN 20 ELSE 10)
           + (CASE e[2] \in {"open", "open_failed"} -> 1
                [] e[2] \in {"list_tools", "call_tool", "prompt"} -> 2
                [] e[2] = "tool_to_dict" -> 4
                [] e[2] = "display" -> 5
                [] e[2] = "close" -> 6
                [] OTHER -> 3)

\* C2: at most one tool-server connection is open and at most one tool
\* invocation is in flight at any time, a request is in flight only on the
\* open connection of the running block, and the operations of a cell happen
\* in written order: in the Brave cell run_list has opened, used and closed
\* its connection before run_tool opens its own.
C2_Sequential ==
    /\ Cardinality(conns) <= 1
    /\ Cardinality(inflight) <= 1
    /\ \A r \in inflight :
           \E x \in conns : x.by = r.by /\ x.fn = r.fn /\ r.by = cell
    /\ \A i, j \in Indices :
           (i < j /\ ~IsFailure(log[i]) /\ ~IsFailure(log[j]))
               => Rank(log[i]) <= Rank(log[j])
    /\ \A i \in Indices :
           log[i][1] = "run_tool"
               => \E j \in 1..(i - 1) : log[j] = Event("run_list", "close")

\* The Brave cell has call_tool in flight on its second connection, after
\* run_list listed the tools and closed the first.
C2_Witness ==
    /\ cell = "brave"
    /\ inflight = {[by |-> "brave", fn |-> "run_tool", op |-> "call_tool"]}
    /\ Logged("run_list", "list_tools")
    /\ Logged("run_list", "close")
    /\ \E x \in conns : x.fn = "run_tool"

\* C3: nothing is caught or retried: an awaited operation is attempted at
\* most once per block, after a failure no statement runs but the release of
\* the block it failed in, the cell ends raised, and in the Brave cell a
\* failure of run_list means run_tool is never started and opens nothing.
C3_NoRetryNoCatch ==
    /\ \A fn \in Fns :
           /\ Count(fn, "open") + Count(fn, "open_failed") <= 1
           /\ \A op \in {"list_tools", "call_tool", "prompt"} :
                  Count(fn, op) <= 1
    /\ \A i \in Indices :
           IsFailure(log[i]) =>
               /\ \A j \in Indices :
                      j > i => /\ log[j] = Event(log[i][1], "close")
                               /\ log[i][2] = "failed"
                               /\ j = i + 1
               /\ cell # None => pc = "aexit" /\ exc
               /\ cell = None => status.result = "raised"
               /\ inflight = {}
    /\ (\E i \in Indices : log[i][1] = "run_list" /\ IsFailure(log[i]))
           => /\ \A i \in Indices : log[i][1] # "run_tool"
              /\ \A x \in conns : x.fn # "run_tool"
              /\ frame.fn # "run_tool"

\* The Brave cell ended raised because list_tools failed in run_list.
C3_Witness ==
    /\ status = [cell |-> "brave", result |-> "raised"]
    /\ log = <<Event("run_list", "open"), Event("run_list", "list_tools"),
               Event("run_list", "failed"), Event("run_list", "close")>>
    /\ cell = None

ListFn(c) == IF c = "brave" THEN "run_list" ELSE "run"

\* C4: when the launch command is unreachable, a cell that lists tools fails
\* at the connection: the call ends raised, list_tools is never sent,
\* tool_to_dict is never invoked and no table is displayed.
C4_UnreachableNeverFormats ==
    (~npx /\ status.cell \in {"pw_list", "brave"}) =>
        /\ \A i \in Indices :
               /\ log[i][2] # "tool_to_dict"
               /\ log[i] # Event(ListFn(status.cell), "display")
               /\ log[i] # Event(ListFn(status.cell), "list_tools")
        /\ df = << >>
        /\ log # << >> =>
               /\ log = <<Event(ListFn(status.cell), "open_failed")>>
               /\ status.result = "raised"

\* The Playwright list cell ran with npx unreachable and raised at the
\* connection.
C4_Witness ==
    /\ ~npx
    /\ status = [cell |-> "pw_list", result |-> "raised"]
    /\ log = <<Event("run", "open_failed")>>

\* C5: once NotebookAgent() has returned, the instance's args.quiet is True,
\* whatever the base constructor had stored: on the instance about to be bound
\* and on every instance the global `fast` names.
C5_QuietAfterConstruction ==
    /\ (cell \in AgentCells /\ pc = "bind_fast")
           => self.args = [exists |-> TRUE, quiet |-> "True"]
    /\ g.fast # NoAgent => g.fast.args = [exists |-> TRUE, quiet |-> "True"]

\* The constructor has returned with quiet True although the base constructor
\* had stored quiet False.
C5_Witness ==
    /\ pc = "bind_fast"
    /\ Logged("FastAgent.__init__", "False")
    /\ self.args.quiet = "True"

\* C6 as stated: the base constructor never runs in a state where the
\* instance's quiet flag is not yet true.
C6_QuietBeforeBase ==
    (cell \in AgentCells /\ pc = "super_init") => self.args.quiet = "True"

\* C6 amended: the flag is set after the base constructor has run and before
\* the constructor returns, so every behaviour of the base type other than
\* its constructor (the agent declaration, run(), the prompt, the exit of the
\* run block) runs in a state where the instance's quiet flag is true.
C6_QuietBeforeAgentBehaviour ==
    (cell \in AgentCells
        /\ pc \in {"decorate", "call_run", "aenter"} \cup BlockPcs)
      => g.fast.args.quiet = "True"

\* The web-search agent's prompt is in flight on a quiet instance whose base
\* constructor had stored quiet False.
C6_Witness ==
    /\ cell = "websearch"
    /\ pc = "await"
    /\ Logged("FastAgent.__init__", "False")
    /\ g.fast.args.quiet = "True"

Formatted == cell # None /\ pc \in {"display", "aexit"} /\ Len(df) = Len(mcp_tools)

\* C7: tool_to_dict copies name and description, returns title, readOnly and
\* destructive all None for a tool without annotations, and otherwise exactly
\* the annotations' title, readOnlyHint and destructiveHint: False stays
\* False, and a hint not given is None.
C7_AnnotationFields ==
    Formatted =>
        \A i \in 1..Len(df) :
            LET t == mcp_tools[i]
                r == df[i]
            IN /\ r.name = t.name
               /\ r.description = t.description
               /\ ~t.annotations.present
                      => r.title = None /\ r.readOnly = None
                         /\ r.destructive = None
               /\ t.annotations.present
                      => /\ r.title = t.annotations.title
                         /\ r.readOnly = t.annotations.readOnlyHint
                         /\ r.destructive = t.annotations.destructiveHint

\* A tool whose annotations give readOnlyHint False and no title has been
\* formatted.
C7_Witness ==
    /\ Formatted
    /\ Len(df) = 1
    /\ mcp_tools[1].annotations.present
    /\ mcp_tools[1].annotations.readOnlyHint = "False"
    /\ mcp_tools[1].annotations.title = None
    /\ df[1].readOnly = "False"
    /\ df[1].destructive = None

\* C8: the inputs field is the key names of inputSchema.properties in the
\* schema's order, none dropped, added or duplicated, and the empty sequence
\* when inputSchema has no properties key.
C8_InputsInOrder ==
    Formatted =>
        \A i \in 1..Len(df) :
            LET schema == mcp_tools[i].inputSchema
                inputs == df[i].inputs
            IN /\ ~schema.hasProperties => inputs = << >>
               /\ schema.hasProperties =>
                      /\ Len(inputs) = Len(schema.properties)
                      /\ \A k \in 1..Len(inputs) :
                             inputs[k] = schema.properties[k][1]
                      /\ IsInjective(inputs)

\* A tool with properties url then count has been formatted.
C8_Witness ==
    /\ Formatted
    /\ Len(df) = 1
    /\ mcp_tools[1].inputSchema.hasProperties
    /\ Keys(mcp_tools[1].inputSchema.properties) = <<"url", "count">>
    /\ df[1].inputs = <<"url", "count">>

\* C9: load_dotenv() is additive: in every step, a variable that is set keeps
\* its value, and a variable that was not set is afterwards unset or has the
\* value the file read in that step gives it; no other statement of the
\* notebook writes the environment.
C9_LoadIsAdditive ==
    [][\A k \in EnvVars :
          /\ environ[k] # Unset => environ'[k] = environ[k]
          /\ environ[k] = Unset => environ'[k] = dotenv'[k]]_vars

\* A load has read a file that redefines a variable already set, which kept
\* its value, and that gives a variable not yet set, which received it.
C9_Witness ==
    /\ status = [cell |-> "dotenv", result |-> "ok"]
    /\ \E k \in EnvVars :
           dotenv[k] # Unset /\ environ[k] # Unset /\ environ[k] # dotenv[k]
    /\ \E k \in EnvVars : dotenv[k] # Unset /\ environ[k] = dotenv[k]

\* C10: in every order of cell executions, the coroutine a cell runs is the
\* one it defined, and the connection or session it opens is built from the
\* configuration or the agent declaration written in that cell.
C10_OwnConfiguration ==
    /\ frame # NoFrame => frame.def = cell
    /\ \A x \in conns :
           /\ x.origin = x.by
           /\ x.kind = "client"
                  => /\ x.by \in ClientCells
                     /\ x.server = ConfigOf(x.by).server
                     /\ x.key = ConfigOf(x.by).key
           /\ x.kind = "session"
                  => /\ x.by \in AgentCells
                     /\ x.agents = {DeclOf(x.by)}

\* The navigation cell has its connection open in a kernel where the Brave
\* cell and an agent cell ran before and left their globals.
C10_Witness ==
    /\ runs = MaxRuns
    /\ \E x \in conns : x.by = "pw_nav" /\ x.server = "playwright"
    /\ g.run_list = "brave"
    /\ g.fast.owner \in AgentCells

====
